---------------------------- MODULE Spec2Model ----------------------------
(***************************************************************************)
(* A model of build_vfd_report.py (SISL VFD Stock Report Generator v0.8):  *)
(* the inventory frame `inv` is taken through the script's statements, one *)
(* action per statement group, from the CSV rows to the rendered table.    *)
(*                                                                         *)
(* Strings are TLA+ strings (TLC evaluates Len, SubSeq and \o on them);    *)
(* floats are exact rationals extended with inf and nan, so that a         *)
(* division by zero yields what numpy yields and no rounding is modelled.  *)
(***************************************************************************)
EXTENDS Integers, Sequences, FiniteSets, TLC

-----------------------------------------------------------------------------
(* Bounds of the model                                                     *)

\* the longest inventory frame that is enumerated
MaxRows == 2
\* the longest identifier drawn from NormAlphabet
MaxStrLen == 4

-----------------------------------------------------------------------------
(* Small helpers                                                           *)

Min(S) == CHOOSE x \in S : \A y \in S : x <= y
Max(S) == CHOOSE x \in S : \A y \in S : x >= y
Abs(x) == IF x < 0 THEN -x ELSE x

RECURSIVE GCD(_, _)
GCD(a, b) == IF b = 0 THEN a ELSE GCD(b, a % b)

\* a sequence given as a function on 1..n, element by element
AsSeq(f) == SubSeq(f, 1, Len(f))

RECURSIVE Pow10(_)
Pow10(k) == IF k = 0 THEN 1 ELSE 10 * Pow10(k - 1)

-----------------------------------------------------------------------------
(* Python / numpy values: float64 as a rational n/d (d > 0, lowest terms), *)
(* +inf and -inf (n is the sign), nan, and Python's None.                  *)

Fin(n, d) ==
    LET s == IF d < 0 THEN -1 ELSE 1
        g == GCD(Abs(n), Abs(d))
    IN  [k |-> "fin", n |-> (s * n) \div g, d |-> (s * d) \div g]
Inf(sign) == [k |-> "inf", n |-> sign, d |-> 1]
NaN == [k |-> "nan", n |-> 0, d |-> 1]
None == [k |-> "none", n |-> 0, d |-> 1]

IsFin(a) == a.k = "fin"
Sgn(a) == IF a.n > 0 THEN 1 ELSE IF a.n < 0 THEN -1 ELSE 0
IsZero(a) == IsFin(a) /\ a.n = 0
\* None in a float column is a missing value, like nan (pandas masks it)
Missing(a) == a.k \in {"nan", "none"}

\* pd.notna
notna(a) == ~Missing(a)

\* a < b on floats (False when either is nan)
FLt(a, b) ==
    /\ ~Missing(a) /\ ~Missing(b)
    /\ IF IsFin(a) /\ IsFin(b) THEN a.n * b.d < b.n * a.d
       ELSE IF IsFin(a) THEN b.n > 0
       ELSE IF IsFin(b) THEN a.n < 0
       ELSE a.n < b.n

FNeg(a) == IF Missing(a) THEN NaN
           ELSE IF IsFin(a) THEN Fin(-a.n, a.d) ELSE Inf(-a.n)
FAdd(a, b) ==
    IF Missing(a) \/ Missing(b) THEN NaN
    ELSE IF ~IsFin(a) /\ ~IsFin(b) THEN (IF a.n = b.n THEN a ELSE NaN)
    ELSE IF ~IsFin(a) THEN a
    ELSE IF ~IsFin(b) THEN b
    ELSE Fin(a.n * b.d + b.n * a.d, a.d * b.d)
FSub(a, b) == FAdd(a, FNeg(b))
FMul(a, b) ==
    IF Missing(a) \/ Missing(b) THEN NaN
    ELSE IF ~IsFin(a) \/ ~IsFin(b)
         THEN (IF IsZero(a) \/ IsZero(b) THEN NaN ELSE Inf(Sgn(a) * Sgn(b)))
    ELSE Fin(a.n * b.n, a.d * b.d)
\* numpy true division: x/0 is +-inf, 0/0 is nan, no exception
FDiv(a, b) ==
    IF Missing(a) \/ Missing(b) THEN NaN
    ELSE IF ~IsFin(a) /\ ~IsFin(b) THEN NaN
    ELSE IF ~IsFin(a) THEN Inf(IF Sgn(b) < 0 THEN -a.n ELSE a.n)
    ELSE IF ~IsFin(b) THEN Fin(0, 1)
    ELSE IF b.n = 0 THEN (IF a.n = 0 THEN NaN ELSE Inf(Sgn(a)))
    ELSE Fin(a.n * b.d, a.d * b.n)

\* Series.astype(int) on a finite float: truncation toward zero
AsInt(a) == IF a.n >= 0 THEN a.n \div a.d ELSE -((-a.n) \div a.d)

\* Python truthiness of a dict value, and `a or b`
Truthy(a) == ~(a.k = "none" \/ IsZero(a))
PyOr(a, b) == IF Truthy(a) THEN a ELSE b

\* dict.get(key) and dict.get(key, default)
Get(dict, key) == IF key \in DOMAIN dict THEN dict[key] ELSE None
GetDefault(dict, key, default) == IF key \in DOMAIN dict THEN dict[key] ELSE default

-----------------------------------------------------------------------------
(* Python str operations                                                   *)

\* s[i:i+1], 1-based: "" outside the string
Char(s, i) == IF 1 <= i /\ i <= Len(s) THEN SubSeq(s, i, i) ELSE ""
Occurrences(s, t) == {i \in 1..(Len(s) - Len(t) + 1) : SubSeq(s, i, i + Len(t) - 1) = t}
\* `t in s`
Contains(s, t) == Occurrences(s, t) # {}
StartsWith(s, t) == Len(t) <= Len(s) /\ SubSeq(s, 1, Len(t)) = t

Whitespace == {" ", "\t"}
Digits == {"0", "1", "2", "3", "4", "5", "6", "7", "8", "9"}
UpperLetters == {"A", "B", "C", "D", "E", "F", "G", "H", "I", "J", "K", "L", "M",
                 "N", "O", "P", "Q", "R", "S", "T", "U", "V", "W", "X", "Y", "Z"}
UpperOf == [c \in {"a", "b", "c", "d", "e", "f", "g", "h", "i", "j", "k", "l", "m",
                   "n", "o", "p", "q", "r", "s", "t", "u", "v", "w", "x", "y", "z"} |->
            CASE c = "a" -> "A" [] c = "b" -> "B" [] c = "c" -> "C" [] c = "d" -> "D"
              [] c = "e" -> "E" [] c = "f" -> "F" [] c = "g" -> "G" [] c = "h" -> "H"
              [] c = "i" -> "I" [] c = "j" -> "J" [] c = "k" -> "K" [] c = "l" -> "L"
              [] c = "m" -> "M" [] c = "n" -> "N" [] c = "o" -> "O" [] c = "p" -> "P"
              [] c = "q" -> "Q" [] c = "r" -> "R" [] c = "s" -> "S" [] c = "t" -> "T"
              [] c = "u" -> "U" [] c = "v" -> "V" [] c = "w" -> "W" [] c = "x" -> "X"
              [] c = "y" -> "Y" [] c = "z" -> "Z"]

ToUpperChar(c) == IF c \in DOMAIN UpperOf THEN UpperOf[c] ELSE c
RECURSIVE upper(_)
upper(s) == IF s = "" THEN "" ELSE ToUpperChar(Char(s, 1)) \o upper(SubSeq(s, 2, Len(s)))

\* strip as lstrip: the trailing whitespace stays
strip_left_only(s) ==
    LET keep == {i \in 1..Len(s) : Char(s, i) \notin Whitespace}
    IN  IF keep = {} THEN "" ELSE SubSeq(s, Min(keep), Len(s))

\* str.strip()
strip(s) ==
    LET keep == {i \in 1..Len(s) : Char(s, i) \notin Whitespace}
    IN  IF keep = {} THEN "" ELSE SubSeq(s, Min(keep), Max(keep))

\* s.split(sep)[-1]: split scans left to right over non-overlapping matches
RECURSIVE split_last(_, _)
split_last(s, sep) ==
    IF ~Contains(s, sep) THEN s
    ELSE split_last(SubSeq(s, Min(Occurrences(s, sep)) + Len(sep), Len(s)), sep)

\* s.replace(old, "")
RECURSIVE remove_all(_, _)
remove_all(s, old) ==
    IF ~Contains(s, old) THEN s
    ELSE LET i == Min(Occurrences(s, old))
         IN  SubSeq(s, 1, i - 1) \o remove_all(SubSeq(s, i + Len(old), Len(s)), old)

DigitVal(c) ==
    CASE c = "0" -> 0 [] c = "1" -> 1 [] c = "2" -> 2 [] c = "3" -> 3 [] c = "4" -> 4
      [] c = "5" -> 5 [] c = "6" -> 6 [] c = "7" -> 7 [] c = "8" -> 8 [] c = "9" -> 9

RECURSIVE DigitsVal(_, _)
DigitsVal(s, acc) ==
    IF s = "" THEN acc
    ELSE DigitsVal(SubSeq(s, 2, Len(s)), 10 * acc + DigitVal(Char(s, 1)))

\* float(s) for a numeral of digits with at most one "."; float() raises
\* ValueError on anything else, and the inputs enumerated below hold no
\* such numeral
float(s) ==
    LET dots == Occurrences(s, ".")
    IN  IF dots = {} THEN Fin(DigitsVal(s, 0), 1)
        ELSE LET p == Min(dots)
                 whole == SubSeq(s, 1, p - 1)
                 frac == SubSeq(s, p + 1, Len(s))
             IN  Fin(DigitsVal(whole \o frac, 0), Pow10(Len(frac)))

-----------------------------------------------------------------------------
(* The script's helpers                                                    *)

\* the identifier kept out of the report
Denylist == {"FR-S520SE-0.2K-19"}

\* ModelOf with the text split at the first "||" only (split("||", 1))
ModelOf_split_once(s) ==
    LET t == strip(IF Contains(s, "||")
                   THEN SubSeq(s, Min(Occurrences(s, "||")) + 2, Len(s)) ELSE s)
    IN  IF t = "FR-D720S-025-NA" THEN "FR-D720S-0.4K" ELSE t

\* inv["Model"]: the text after the last "||", stripped, then the one
\* whole-value replacement of Series.replace
ModelOf(s) ==
    LET t == strip(split_last(s, "||"))
    IN  IF t = "FR-D720S-025-NA" THEN "FR-D720S-0.4K" ELSE t

\* re.search(r"-(?:H)?([\d.]+)K", model): group(1) of the leftmost match,
\* "" when there is none.  After "-" an "H" is consumed when present (the
\* class cannot match it), the class then takes its longest run, and only
\* the longest run can be followed by "K".
CapStart(s, i) == IF Char(s, i + 1) = "H" THEN i + 2 ELSE i + 1
CapEnd(s, j) ==
    LET stop == {k \in j..Len(s) : Char(s, k) \notin (Digits \cup {"."})}
    IN  IF stop = {} THEN Len(s) ELSE Min(stop) - 1
CapMatches(s) ==
    {i \in 1..Len(s) :
        /\ Char(s, i) = "-"
        /\ CapEnd(s, CapStart(s, i)) >= CapStart(s, i)
        /\ Char(s, CapEnd(s, CapStart(s, i)) + 1) = "K"}
CapGroup(s) ==
    IF CapMatches(s) = {} THEN ""
    ELSE LET j == CapStart(s, Min(CapMatches(s)))
         IN  SubSeq(s, j, CapEnd(s, j))

\* fallback127(model, lookup)
fallback127(model, lookup) ==
    LET cap == IF CapGroup(model) # "" THEN CapGroup(model) \o "K" ELSE ""
    IN  IF cap = "" THEN None
        ELSE IF Contains(model, "720") THEN Get(lookup, "FR-E820-" \o cap \o "-1")
        ELSE IF Contains(model, "740") THEN Get(lookup, "FR-E840-" \o cap \o "-1")
        ELSE None

\* the loop `for alt in "AEFD"` of list_price: the first alternate series,
\* in that order and other than the model's own, whose key is in lp
AltSeries == <<"A", "E", "F", "D">>
AltModel(model, alt) == "FR-" \o alt \o SubSeq(model, 5, Len(model))
AltHits(model, lp) ==
    {i \in 1..Len(AltSeries) :
        /\ AltSeries[i] # Char(model, 4)
        /\ AltModel(model, AltSeries[i]) \in DOMAIN lp}
alt_lookup(model, lp) ==
    IF AltHits(model, lp) = {} THEN None
    ELSE lp[AltModel(model, AltSeries[Min(AltHits(model, lp))])]

Class720 == {"D720", "D720S", "E720", "E820"}
Class740 == {"D740", "E740", "E840"}

\* list_price(model, lp)
list_price(model, lp) ==
    LET family == IF CapGroup(model) # "" THEN CapGroup(model) \o "K" ELSE ""
        m == StartsWith(model, "FR-") /\ Char(model, 4) \in UpperLetters
    IN  IF model \in DOMAIN lp THEN lp[model]
        ELSE IF family # "" /\ \E t \in Class720 : Contains(model, t)
             THEN PyOr(Get(lp, "FR-A820-" \o family \o "-1"),
                       Get(lp, "FR-E820-" \o family \o "-1"))
        ELSE IF family # "" /\ \E t \in Class740 : Contains(model, t)
             THEN PyOr(Get(lp, "FR-A840-" \o family \o "-1"),
                       Get(lp, "FR-E840-" \o family \o "-1"))
        ELSE IF m /\ family # "" THEN alt_lookup(model, lp)
        ELSE None

\* series_tag(model)
series_tag(model) ==
    IF Contains(upper(model), "FR-HEL") THEN "H"
    ELSE IF StartsWith(model, "FR-") /\ Char(model, 4) \in UpperLetters
         THEN Char(model, 4)
    ELSE ""

\* capacity_val(model)
capacity_val(model) ==
    IF CapGroup(model) # "" THEN float(CapGroup(model)) ELSE Fin(0, 1)

\* order_map, with fillna(99) for a tag it does not hold
order_map(tag) ==
    CASE tag = "D" -> 0 [] tag = "E" -> 1 [] tag = "F" -> 2
      [] tag = "A" -> 3 [] tag = "H" -> 4 [] OTHER -> 99

-----------------------------------------------------------------------------
(* The statements that transform the frame, as functions of the frame      *)

\* a CSV row as read: the identifier cell, "Qty owned" (numeric) and
\* "Total cost" (text); `row` is the index label pandas gives the row,
\* kept here after the sort as well, to tell the rows apart
read_csv(cells) ==
    AsSeq([i \in 1..Len(cells) |->
        [row |-> i, Name |-> cells[i].name, QtyOwned |-> cells[i].qty,
         TotalCostCell |-> cells[i].cost]])

with_model(frame) ==
    AsSeq([i \in 1..Len(frame) |-> [Model |-> ModelOf(frame[i].Name)] @@ frame[i]])

\* keep_row with `>= 0` for `> 0`
keep_row_ge(r) == ~FLt(r.QtyOwned, Fin(0, 1)) /\ r.Model \notin Denylist

\* the boolean mask of the filter
keep_row(r) == FLt(Fin(0, 1), r.QtyOwned) /\ r.Model \notin Denylist
filter_rows(frame) == SelectSeq(frame, keep_row)

cost_of(r) ==
    LET qty == AsInt(r.QtyOwned)
        total == float(remove_all(r.TotalCostCell, ","))
        cogs == FDiv(total, Fin(qty, 1))
    IN  [Qty |-> qty, TotalCost |-> total, COGS |-> cogs,
         COGS175 |-> FMul(cogs, Fin(7, 4))]
with_costs(frame) ==
    AsSeq([i \in 1..Len(frame) |-> cost_of(frame[i]) @@ frame[i]])

with_p127(frame, p127) ==
    AsSeq([i \in 1..Len(frame) |->
        [P127 |-> GetDefault(p127, frame[i].Model, fallback127(frame[i].Model, p127))]
        @@ frame[i]])

gp_pct(price, cogs) == FMul(FDiv(FSub(price, cogs), cogs), Fin(100, 1))

derived_of(r, lp) ==
    LET price == list_price(r.Model, lp)
    IN  [Series |-> series_tag(r.Model),
         ListPrice |-> price,
         Disc20 |-> FMul(price, Fin(4, 5)),
         Disc25 |-> FMul(price, Fin(3, 4)),
         Disc30 |-> FMul(price, Fin(7, 10)),
         GPpct |-> gp_pct(price, r.COGS),
         Capacity |-> capacity_val(r.Model),
         SeriesOrder |-> order_map(series_tag(r.Model))]
with_derived(frame, lp) ==
    AsSeq([i \in 1..Len(frame) |-> derived_of(frame[i], lp) @@ frame[i]])

\* key_lt on the Capacity column alone
key_lt_capacity_only(a, b) == FLt(a.Capacity, b.Capacity)

\* the order of sort_values(["Capacity", "SeriesOrder"])
key_lt(a, b) ==
    \/ FLt(a.Capacity, b.Capacity)
    \/ a.Capacity = b.Capacity /\ a.SeriesOrder < b.SeriesOrder

\* insert_row placing a row before the rows it ties with (an unstable sort)
insert_row_before_ties(sorted, r) ==
    LET p == Cardinality({i \in 1..Len(sorted) : key_lt(sorted[i], r)})
    IN  SubSeq(sorted, 1, p) \o <<r>> \o SubSeq(sorted, p + 1, Len(sorted))

\* sort_values on two columns is a lexsort, which is stable: each row goes
\* behind the rows already placed that do not sort after it
insert_row(sorted, r) ==
    LET p == Cardinality({i \in 1..Len(sorted) : ~key_lt(r, sorted[i])})
    IN  SubSeq(sorted, 1, p) \o <<r>> \o SubSeq(sorted, p + 1, Len(sorted))
RECURSIVE sort_from(_, _, _)
sort_from(frame, i, sorted) ==
    IF i > Len(frame) THEN sorted
    ELSE sort_from(frame, i + 1, insert_row(sorted, frame[i]))
sort_values(frame) == sort_from(frame, 1, <<>>)

\* sl_of for range(len(inv)): numbering from 0
sl_of_zero_based(i) == i - 1

\* inv.insert(0, "SL", range(1, len(inv) + 1))
sl_of(i) == i
insert_sl(frame) ==
    AsSeq([i \in 1..Len(frame) |-> [SL |-> sl_of(i)] @@ frame[i]])

\* one table line of the PDF; the GP% cell is blank for a missing value
gp_cell(r) == [blank |-> ~notna(r.GPpct), value |-> r.GPpct]
pdf_row(r) ==
    [SL |-> r.SL, Model |-> r.Model, Qty |-> r.Qty, ListPrice |-> r.ListPrice,
     Disc20 |-> r.Disc20, Disc25 |-> r.Disc25, Disc30 |-> r.Disc30,
     GP |-> gp_cell(r), COGS |-> r.COGS, COGS175 |-> r.COGS175, P127 |-> r.P127]
RECURSIVE qty_sum(_, _)
qty_sum(frame, i) == IF i > Len(frame) THEN 0 ELSE frame[i].Qty + qty_sum(frame, i + 1)
render(frame) ==
    [rows |-> AsSeq([i \in 1..Len(frame) |-> pdf_row(frame[i])]),
     total |-> qty_sum(frame, 1)]

\* the frame as it stands before the table is written
build_frame(cells, lp, p127) ==
    insert_sl(sort_values(with_derived(with_p127(with_costs(filter_rows(
        with_model(read_csv(cells)))), p127), lp)))

-----------------------------------------------------------------------------
(* The inputs that are enumerated                                          *)

Cell(name, qty, cost) == [name |-> name, qty |-> qty, cost |-> cost]

\* inventory rows: identifiers in the forms the claims speak of, and the
\* quantities and costs at the edges of the filter and of the division
Catalogue ==
    << Cell("FR-D720S-0.4K", Fin(3, 1), "300"),
       Cell("fr-d720s-0.4k", Fin(3, 1), "300"),
       Cell(" FR-D720S-0.4K ", Fin(1, 1), "1,200"),
       Cell("OLD||X|| FR-D720S-025-NA", Fin(2, 1), "0"),
       Cell("FR-E820-0.4K-1", Fin(2, 1), "300"),
       Cell("FR-E820-0.4K-1-1", Fin(1, 1), "300"),
       Cell("FR-S520SE-0.2K-19", Fin(5, 1), "300"),
       Cell("A||FR-S520SE-0.2K-19 ", Fin(5, 1), "300"),
       Cell("FR-D740-1.5K", Fin(0, 1), "300"),
       Cell("FR-D740-1.5K", Fin(1, 2), "300"),
       Cell("FR-HEL-H0.75K", Fin(1, 1), "300"),
       Cell("FR-F820-0.75K-1", Fin(4, 1), "1,200"),
       Cell("CABLE", Fin(1, 1), "300") >>

RECURSIVE Frames(_)
Frames(n) ==
    IF n = 0 THEN {<<>>}
    ELSE LET shorter == Frames(n - 1)
         IN  shorter \cup {Append(f, Catalogue[i]) : f \in shorter, i \in 1..Len(Catalogue)}

\* every identifier of at most n characters over the characters that the
\* Model column's construction looks at
NormAlphabet == {"|", " ", "-", "1", "a"}
RECURSIVE Strings(_)
Strings(n) ==
    IF n = 0 THEN {""}
    ELSE LET shorter == Strings(n - 1)
         IN  shorter \cup {s \o c : s \in shorter, c \in NormAlphabet}

\* a price table over `keys`: each key is absent, or priced 0, or priced
\* with its own price
Priced(keys) ==
    UNION {[present -> {0, 1}] : present \in SUBSET keys}
PriceTable(choice, price) ==
    [key \in DOMAIN choice |-> IF choice[key] = 0 THEN Fin(0, 1) ELSE Fin(price[key], 1)]

ListPrices ==
    [key \in {"FR-D720S-0.4K", "FR-A820-0.4K-1", "FR-E820-0.4K-1", "FR-E720S-0.4K",
              "FR-A840-1.5K-1", "FR-E840-1.5K-1", "FR-A740-1.5K",
              "FR-A820-0.75K-1", "FR-E820-0.75K-1", "FR-D820-0.75K-1"} |->
        CASE key = "FR-D720S-0.4K" -> 125 [] key = "FR-A820-0.4K-1" -> 120
          [] key = "FR-E820-0.4K-1" -> 110 [] key = "FR-E720S-0.4K" -> 105
          [] key = "FR-A840-1.5K-1" -> 220 [] key = "FR-E840-1.5K-1" -> 210
          [] key = "FR-A740-1.5K" -> 205
          [] key = "FR-A820-0.75K-1" -> 150 [] key = "FR-E820-0.75K-1" -> 140
          [] key = "FR-D820-0.75K-1" -> 135]

\* the identifiers whose list price is resolved against every table over
\* the keys of their fallback chain
PriceCases ==
    << [name |-> "FR-D720S-0.4K",
        keys |-> {"FR-D720S-0.4K", "FR-A820-0.4K-1", "FR-E820-0.4K-1", "FR-E720S-0.4K"}],
       [name |-> "FR-D740-1.5K",
        keys |-> {"FR-A840-1.5K-1", "FR-E840-1.5K-1", "FR-A740-1.5K"}],
       [name |-> "FR-F820-0.75K-1",
        keys |-> {"FR-A820-0.75K-1", "FR-E820-0.75K-1", "FR-D820-0.75K-1"}] >>

BaseListPrice ==
    PriceTable([key \in {"FR-A820-0.4K-1", "FR-E820-0.4K-1", "FR-A840-1.5K-1",
                         "FR-A820-0.75K-1"} |-> 1], ListPrices)
BaseP127 ==
    [key \in {"FR-E820-0.4K-1", "FR-D740-1.5K"} |->
        IF key = "FR-E820-0.4K-1" THEN Fin(95, 1) ELSE Fin(130, 1)]

-----------------------------------------------------------------------------
(* The script as a state machine                                           *)

VARIABLES
    pc,        \* the next statement group
    csv,       \* the inventory CSV's rows, as read
    lp_map,    \* the list-price index
    p127_map,  \* the 1.27-price index
    inv,       \* the frame
    pdf        \* the table written: its lines and the Total line

vars == <<pc, csv, lp_map, p127_map, inv, pdf>>

NoTable == [rows |-> <<>>, total |-> 0]

Loaded(cells, lp, p127) ==
    /\ csv = cells
    /\ lp_map = lp
    /\ p127_map = p127
    /\ inv = read_csv(cells)
    /\ pdf = NoTable
    /\ pc = "model"

Init ==
    \/ \E cells \in Frames(MaxRows) : Loaded(cells, BaseListPrice, BaseP127)
    \/ \E s \in Strings(MaxStrLen) :
          Loaded(<<Cell(s, Fin(1, 1), "300")>>, BaseListPrice, BaseP127)
    \/ \E c \in 1..Len(PriceCases) : \E choice \in Priced(PriceCases[c].keys) :
          Loaded(<<Cell(PriceCases[c].name, Fin(2, 1), "300")>>,
                 PriceTable(choice, ListPrices), BaseP127)

BuildModel ==
    /\ pc = "model"
    /\ inv' = with_model(inv)
    /\ pc' = "filter"
    /\ UNCHANGED <<csv, lp_map, p127_map, pdf>>

FilterRows ==
    /\ pc = "filter"
    /\ inv' = filter_rows(inv)
    /\ pc' = "costs"
    /\ UNCHANGED <<csv, lp_map, p127_map, pdf>>

ComputeCosts ==
    /\ pc = "costs"
    /\ inv' = with_costs(inv)
    /\ pc' = "p127"
    /\ UNCHANGED <<csv, lp_map, p127_map, pdf>>

LookupP127 ==
    /\ pc = "p127"
    /\ inv' = with_p127(inv, p127_map)
    /\ pc' = "derive"
    /\ UNCHANGED <<csv, lp_map, p127_map, pdf>>

DeriveColumns ==
    /\ pc = "derive"
    /\ inv' = with_derived(inv, lp_map)
    /\ pc' = "sort"
    /\ UNCHANGED <<csv, lp_map, p127_map, pdf>>

SortAndNumber ==
    /\ pc = "sort"
    /\ inv' = insert_sl(sort_values(inv))
    /\ pc' = "render"
    /\ UNCHANGED <<csv, lp_map, p127_map, pdf>>

RenderTable ==
    /\ pc = "render"
    /\ pdf' = render(inv)
    /\ pc' = "done"
    /\ UNCHANGED <<csv, lp_map, p127_map, inv>>

Next ==
    \/ BuildModel
    \/ FilterRows
    \/ ComputeCosts
    \/ LookupP127
    \/ DeriveColumns
    \/ SortAndNumber
    \/ RenderTable

Spec == Init /\ [][Next]_vars

-----------------------------------------------------------------------------
(* What the claims speak of                                                *)

Filtered == pc \notin {"model", "filter"}
Costed == pc \notin {"model", "filter", "costs"}
Derived == pc \in {"sort", "render", "done"}
Sorted == pc \in {"render", "done"}

\* the CSV rows the report is to hold: a quantity above zero and an
\* identifier that is not the denylisted one
EligibleRows ==
    {i \in 1..Len(csv) :
        csv[i].qty.n > 0 /\ ModelOf(csv[i].name) # "FR-S520SE-0.2K-19"}

\* a.n/a.d < b.n/b.d and = on finite values, by cross-multiplication
RatLt(a, b) == a.n * b.d < b.n * a.d
RatEq(a, b) == a.n * b.d = b.n * a.d

Content(r) == <<r.Name, r.QtyOwned, r.TotalCostCell>>
Orderings(n) == {f \in [1..n -> 1..n] : \A i, j \in 1..n : f[i] = f[j] => i = j}
Permuted(cells, f) == AsSeq([i \in 1..Len(cells) |-> cells[f[i]]])
Count(frame, c) == Cardinality({k \in 1..Len(frame) : Content(frame[k]) = c})

(* C1: filter correctness.  A CSV row is in the final report if and only   *)
(* if its quantity is above 0 and its identifier is not in the denylist:   *)
(* the rows of the frame after the filter, and the lines of the table      *)
(* written, are exactly the eligible rows, each once.                      *)
C1_FilterCorrect ==
    /\ Filtered =>
          /\ {inv[k].row : k \in 1..Len(inv)} = EligibleRows
          /\ Len(inv) = Cardinality(EligibleRows)
    /\ pc = "done" =>
          /\ Len(pdf.rows) = Len(inv)
          /\ \A k \in 1..Len(inv) : pdf.rows[k].Model = ModelOf(csv[inv[k].row].name)

C1_Witness ==
    /\ pc = "done"
    /\ Len(pdf.rows) = 1
    /\ \E i, j \in 1..Len(csv) :
          /\ i \in EligibleRows
          /\ csv[j].qty.n > 0
          /\ csv[j].name # "FR-S520SE-0.2K-19"
          /\ j \notin EligibleRows

(* C2: list-price fallback completeness.  A key that misses the index      *)
(* directly, has a capacity token, and whose cross-family candidates       *)
(* (A820/E820 roots for the 720/820 class, A840/E840 roots for the 740/840 *)
(* class) all miss, gets the first hit among the family-letter             *)
(* substitutions; its list price is absent only if the whole chain misses. *)
CrossKeys(model) ==
    LET cap == CapGroup(model) \o "K"
    IN  IF \E t \in Class720 : Contains(model, t)
        THEN {"FR-A820-" \o cap \o "-1", "FR-E820-" \o cap \o "-1"}
        ELSE IF \E t \in Class740 : Contains(model, t)
        THEN {"FR-A840-" \o cap \o "-1", "FR-E840-" \o cap \o "-1"}
        ELSE {}
C2_FallbackComplete ==
    Derived =>
        \A k \in 1..Len(inv) :
            LET model == inv[k].Model
            IN  ( /\ model \notin DOMAIN lp_map
                  /\ CapGroup(model) # ""
                  /\ StartsWith(model, "FR-") /\ Char(model, 4) \in UpperLetters
                  /\ CrossKeys(model) \cap DOMAIN lp_map = {}
                  /\ AltHits(model, lp_map) # {} )
                => inv[k].ListPrice = alt_lookup(model, lp_map)

(* C3: key equivalence.  Raw identifiers that differ only by letter case,  *)
(* by internal whitespace or by a trailing "-1" get the same key (seen     *)
(* when the Model column is built), and so the same 1.27 price and the     *)
(* same list price (seen when both price columns are built).               *)
StripSuffix(s) ==
    IF Len(s) >= 2 /\ SubSeq(s, Len(s) - 1, Len(s)) = "-1"
    THEN SubSeq(s, 1, Len(s) - 2) ELSE s
CaseVariants(s) == {upper(s)}
SpaceVariants(s) == {remove_all(remove_all(s, " "), "\t")}
SuffixVariants(s) == {s \o "-1", StripSuffix(s)}
SameKey(r, variant) == ModelOf(variant) = r.Model
SamePrices(r, variant) ==
    LET key == ModelOf(variant)
    IN  /\ GetDefault(p127_map, key, fallback127(key, p127_map)) = r.P127
        /\ list_price(key, lp_map) = r.ListPrice
SpecVariants(s) == CaseVariants(s) \cup SpaceVariants(s) \cup SuffixVariants(s)
Pads == {"", " ", "\t"}
PaddedVariants(s) == {l \o s \o r : l \in Pads, r \in Pads}
C4_Idempotent ==
    pc = "filter" =>
        \A k \in 1..Len(inv) : ModelOf(inv[k].Model) = inv[k].Model

C4_Witness ==
    /\ pc = "filter"
    /\ \E i, j \in 1..Len(inv) :
          /\ inv[i].Name = "OLD||X|| FR-D720S-025-NA"
          /\ inv[i].Model = "FR-D720S-0.4K"
          /\ inv[j].Name = "FR-E820-0.4K-1-1"

(* C5: gross-margin absence.  The GP% cell of every line holds             *)
(* (listPrice - cogs) / cogs * 100 when the list price is present and      *)
(* cogs > 0, and is blank in every other case.                             *)
C5_GrossMarginAbsence ==
    pc = "done" =>
        \A k \in 1..Len(inv) :
            LET price == inv[k].ListPrice
                cogs == inv[k].COGS
                cell == pdf.rows[k].GP
            IN  IF IsFin(price) /\ IsFin(cogs) /\ cogs.n > 0
                THEN /\ ~cell.blank
                     /\ IsFin(cell.value)
                     /\ cell.value.n * (price.d * cogs.n)
                           = cell.value.d * 100 * (price.n * cogs.d - cogs.n * price.d)
                ELSE cell.blank

(* C6: sort order.  The report's rows ascend by capacity (0.0 without a    *)
(* capacity token), rows of equal capacity ascend by family order (D=0,    *)
(* E=1, F=2, A=3, H=4, anything else 99), and rows equal on both are in    *)
(* the order they had in the filtered input.                               *)
FamilyOrders == {<<"D", 0>>, <<"E", 1>>, <<"F", 2>>, <<"A", 3>>, <<"H", 4>>}
C6_SortOrder ==
    Sorted =>
        /\ \A i, j \in 1..Len(inv) :
              i < j =>
                 \/ RatLt(inv[i].Capacity, inv[j].Capacity)
                 \/ /\ RatEq(inv[i].Capacity, inv[j].Capacity)
                    /\ inv[i].SeriesOrder < inv[j].SeriesOrder
                 \/ /\ RatEq(inv[i].Capacity, inv[j].Capacity)
                    /\ inv[i].SeriesOrder = inv[j].SeriesOrder
                    /\ inv[i].row < inv[j].row
        /\ \A k \in 1..Len(inv) :
              /\ IsFin(inv[k].Capacity)
              /\ ~Contains(inv[k].Model, "K") => inv[k].Capacity.n = 0
              /\ \/ <<inv[k].Series, inv[k].SeriesOrder>> \in FamilyOrders
                 \/ /\ inv[k].Series \notin {"D", "E", "F", "A", "H"}
                    /\ inv[k].SeriesOrder = 99

C6_Witness ==
    /\ pc = "done"
    /\ Len(inv) = 2
    /\ inv[1].row > inv[2].row
    /\ inv[1].Capacity = inv[2].Capacity
    /\ inv[1].SeriesOrder < inv[2].SeriesOrder

(* C7: permutation invariance.  The pipeline run on any permutation of the *)
(* same inventory rows gives the same output order of rows.                *)
C7_PermutationInvariant ==
    pc = "done" =>
        \A f \in Orderings(Len(csv)) :
            LET other == build_frame(Permuted(csv, f), lp_map, p127_map)
            IN  /\ Len(other) = Len(inv)
                /\ \A k \in 1..Len(inv) : Content(other[k]) = Content(inv[k])

(* C7, amended: the pipeline run on any permutation of the same inventory  *)
(* rows gives the same rows with the same sequence of (capacity, family    *)
(* order) along the output; only rows that tie on both may change places.  *)
C7_PermutationKeepsKeys ==
    pc = "done" =>
        \A f \in Orderings(Len(csv)) :
            LET other == build_frame(Permuted(csv, f), lp_map, p127_map)
            IN  /\ Len(other) = Len(inv)
                /\ \A k \in 1..Len(inv) :
                      /\ other[k].Capacity = inv[k].Capacity
                      /\ other[k].SeriesOrder = inv[k].SeriesOrder
                      /\ other[k].SL = inv[k].SL
                      /\ Count(other, Content(inv[k])) = Count(inv, Content(inv[k]))

C7_Witness ==
    /\ pc = "done"
    /\ Len(inv) = 2
    /\ inv[1].Capacity = inv[2].Capacity
    /\ inv[1].SeriesOrder = inv[2].SeriesOrder
    /\ Content(inv[1]) # Content(inv[2])
    /\ inv[1].row = 1

(* C8: row accounting.  Every eligible row gives exactly one line, also    *)
(* with both prices unresolved and also when it shares its key with        *)
(* another row; the lines are numbered 1..N along the sorted order and the *)
(* Total line holds the sum of their quantities.                           *)
RECURSIVE SumQty(_)
SumQty(lines) == IF lines = <<>> THEN 0 ELSE Head(lines).Qty + SumQty(Tail(lines))
C8_RowAccounting ==
    pc = "done" =>
        /\ Len(pdf.rows) = Cardinality(EligibleRows)
        /\ \A i, j \in 1..Len(inv) : inv[i].row = inv[j].row => i = j
        /\ \A k \in 1..Len(pdf.rows) :
              /\ pdf.rows[k].SL = k
              /\ pdf.rows[k].Qty = inv[k].Qty
              /\ inv[k].Qty = AsInt(csv[inv[k].row].qty)
        /\ pdf.total = SumQty(pdf.rows)

C8_Witness ==
    /\ pc = "done"
    /\ Len(pdf.rows) = 2
    /\ pdf.rows[1].Model = pdf.rows[2].Model
    /\ \A k \in 1..2 : Missing(pdf.rows[k].ListPrice) /\ Missing(pdf.rows[k].P127)
    /\ pdf.rows[1].SL = 1 /\ pdf.rows[2].SL = 2
    /\ pdf.total = 2

(* C9: zero is a value.  When an earlier candidate of the list-price chain *)
(* (the A820 or A840 root key) is in the index with the value 0, that 0 is *)
(* the list price resolved: no later candidate is taken and the price is   *)
(* not absent.                                                             *)
FirstCrossKey(model) ==
    LET cap == CapGroup(model) \o "K"
    IN  IF \E t \in Class720 : Contains(model, t) THEN "FR-A820-" \o cap \o "-1"
        ELSE "FR-A840-" \o cap \o "-1"
C9_ZeroIsAValue ==
    Derived =>
        \A k \in 1..Len(inv) :
            LET model == inv[k].Model
            IN  ( /\ model \notin DOMAIN lp_map
                  /\ CapGroup(model) # ""
                  /\ CrossKeys(model) # {}
                  /\ FirstCrossKey(model) \in DOMAIN lp_map
                  /\ lp_map[FirstCrossKey(model)] = Fin(0, 1) )
                => inv[k].ListPrice = Fin(0, 1)

(* C10: positive quantity.  Every row that passed the filter has, where    *)
(* COGS is computed, an integer Qty above 0, so that TotalCost / Qty never *)
(* divides by zero.                                                        *)
C10_PositiveQty ==
    Costed =>
        \A k \in 1..Len(inv) : inv[k].Qty > 0 /\ IsFin(inv[k].COGS)

=============================================================================
